---- MODULE Spec2Model ----
(***************************************************************************)
(* Model of the local-file -> block-blob transfer of azure-storage-azcopy  *)
(* (package ste: runPrologue, generateUploadFunc, putBlob) and of the      *)
(* list command of the front end (package cmd: HandleListCommand).         *)
(***************************************************************************)
EXTENDS Integers, Sequences, FiniteSets, TLC

\* ---------------------------------------------------------------- bounds
MaxSourceSize == 6
MinBlockSize == 2
MaxBlockSize == 3
ChanCap == 2
NumWorkers == 3

VARIABLES
    sourceSize,        \* transfer.SourceSize
    blockSize,         \* transfer.BlockSize
    numChunks,         \* transfer.NumChunks
    prologue,          \* position of runPrologue / putBlob
    startIndex,        \* loop variable of runPrologue
    blockIdCount,      \* loop variable of runPrologue
    chunkChannel,      \* the chunk channel: chunk ids of the queued chunkFuncs
    jobs,              \* chunkId -> the closure made by generateUploadFunc and its position
    blockIdsAllocated, \* localToBlockBlob.blockIds != nil
    blockIds,          \* localToBlockBlob.blockIds
    nextUUID,          \* source of common.NewUUID()
    cancelled,         \* transfer.TransferContext.Err() != nil
    status,            \* the transfer's status
    chunksCompleted,   \* the counter behind transfer.ChunksDone()
    throughput,        \* transfer.jobInfo.JobThroughPut
    mapped,            \* memoryMappedFile is a live mapping
    calls,             \* log of the transfer's calls (TransferDone, Unmap, Close, Upload, StageBlock,
                       \* CommitBlockList), channel sends and blockIds writes
    uploadErr,         \* err of putBlob
    commitErr,         \* err of CommitBlockList in the finalizing worker
    list               \* the list command: its input, position and the Rpc calls it made

vars == <<sourceSize, blockSize, numChunks, prologue, startIndex, blockIdCount,
          chunkChannel, jobs, blockIdsAllocated, blockIds, nextUUID, cancelled,
          status, chunksCompleted, throughput, mapped, calls, uploadErr,
          commitErr, list>>

xferVars == <<sourceSize, blockSize, numChunks, prologue, startIndex, blockIdCount,
              chunkChannel, jobs, blockIdsAllocated, blockIds, nextUUID, cancelled,
              status, chunksCompleted, throughput, mapped, calls, uploadErr,
              commitErr>>

\* ---------------------------------------------------------------- helpers

\* transfer.NumChunks, computed where the job part is planned
NumChunksOf(size, chunk) == (size + chunk - 1) \div chunk

\* transfer.ChunksDone(): atomic increment, returns the incremented value
ChunksDone(c) == c + 1

\* base64.StdEncoding.EncodeToString([]byte(uuid.String()))
EncodeToString(uuid) == <<"b64", uuid>>

NoBlockId == <<>>

\* make([]string, n)
MakeBlockIds(n) == [i \in 0..(n - 1) |-> NoBlockId]

NoCalls == [TransferDone |-> 0, Unmap |-> 0, Close |-> 0, Upload |-> 0,
            StageBlock |-> 0, CommitBlockList |-> <<>>, readAfterUnmap |-> FALSE,
            sent |-> <<>>, slotWrites |-> {}, statusWrites |-> <<>>,
            putBlobCtxErr |-> "unchecked"]

IdleList == [pc |-> "idle", args |-> <<>>, OfStatus |-> "", JobId |-> "",
             rpc |-> <<>>, printed |-> <<>>]

\* variant: a source of exactly one block is chunked
IsPutBlob_Strict(blobSize, chunkSize) == blobSize = 0 \/ blobSize < chunkSize

\* step 4.a of runPrologue
IsPutBlob(blobSize, chunkSize) == blobSize = 0 \/ blobSize <= chunkSize

\* variant: the last chunk is not shortened
AdjustedChunkSize_Nominal(start, chunkSize, blobSize) == chunkSize

\* "compute actual size of the chunk"
AdjustedChunkSize(start, chunkSize, blobSize) ==
    IF start + chunkSize > blobSize THEN blobSize - start ELSE chunkSize

\* the closure returned by generateUploadFunc, before a worker picks it up
NewChunkFunc(chunkId, adjustedChunkSize, start) ==
    [pc |-> "queued", chunkId |-> chunkId, adjustedChunkSize |-> adjustedChunkSize,
     startIndex |-> start, err |-> "none", blockId |-> NoBlockId,
     skipped |-> FALSE, staged |-> <<>>, added |-> 0, done |-> <<>>,
     cancelledAtDone |-> FALSE, markedFailed |-> FALSE,
     epilogueCtxErr |-> "unchecked"]

Running == {i \in DOMAIN jobs : jobs[i].pc \notin {"queued", "done"}}

\* ---------------------------------------------------------------- Init

Init ==
    /\ sourceSize \in 0..MaxSourceSize
    /\ blockSize \in MinBlockSize..MaxBlockSize
    /\ numChunks = NumChunksOf(sourceSize, blockSize)
    /\ prologue = "start"
    /\ startIndex = 0
    /\ blockIdCount = 0
    /\ chunkChannel = <<>>
    /\ jobs = <<>>
    /\ blockIdsAllocated = FALSE
    /\ blockIds = <<>>
    /\ nextUUID = 1
    /\ cancelled = FALSE
    /\ status = "InProgress"
    /\ chunksCompleted = 0
    /\ throughput = 0
    /\ mapped = FALSE
    /\ calls = NoCalls
    /\ uploadErr = "none"
    /\ commitErr = "none"
    /\ list = IdleList

\* ---------------------------------------------------------------- runPrologue

\* steps 1..4 of runPrologue: map the file, then choose putBlob or the chunk loop
runPrologue ==
    /\ prologue = "start"
    /\ mapped' = (sourceSize > 0)
    /\ IF IsPutBlob(sourceSize, blockSize)
          THEN /\ prologue' = "putBlob"
               /\ UNCHANGED <<blockIdsAllocated, blockIds>>
          ELSE /\ prologue' = "schedule"
               /\ blockIdsAllocated' = TRUE
               /\ blockIds' = MakeBlockIds(numChunks)
    /\ UNCHANGED <<sourceSize, blockSize, numChunks, startIndex, blockIdCount,
                   chunkChannel, jobs, nextUUID, cancelled, status,
                   chunksCompleted, throughput, calls, uploadErr, commitErr, list>>

\* variant: the loop runs once more when the block size divides the source size
LoopContinues_Inclusive(start, blobSize) == start <= blobSize

\* the loop condition of step 5
LoopContinues(start, blobSize) == start < blobSize

\* step 5 of runPrologue: one iteration of the loop; the send blocks while the channel is full
scheduleChunk ==
    /\ prologue = "schedule"
    /\ LoopContinues(startIndex, sourceSize)
    /\ Len(chunkChannel) < ChanCap
    /\ chunkChannel' = Append(chunkChannel, blockIdCount)
    /\ jobs' = jobs @@ (blockIdCount :>
                 NewChunkFunc(blockIdCount,
                              AdjustedChunkSize(startIndex, blockSize, sourceSize),
                              startIndex))
    /\ blockIdCount' = blockIdCount + 1
    /\ startIndex' = startIndex + blockSize
    /\ prologue' = IF LoopContinues(startIndex', sourceSize) THEN "schedule" ELSE "returned"
    /\ calls' = [calls EXCEPT !.sent = Append(@, blockIdCount)]
    /\ UNCHANGED <<sourceSize, blockSize, numChunks, blockIdsAllocated, blockIds,
                   nextUUID, cancelled, status, chunksCompleted, throughput,
                   mapped, uploadErr, commitErr, list>>

\* ---------------------------------------------------------------- the worker pool

\* a free worker receives the next chunkFunc from the chunk channel
pickUp(i) ==
    /\ chunkChannel # <<>>
    /\ Head(chunkChannel) = i
    /\ Cardinality(Running) < NumWorkers
    /\ chunkChannel' = Tail(chunkChannel)
    /\ jobs' = [jobs EXCEPT ![i].pc = "start"]
    /\ UNCHANGED <<sourceSize, blockSize, numChunks, prologue, startIndex,
                   blockIdCount, blockIdsAllocated, blockIds, nextUUID, cancelled,
                   status, chunksCompleted, throughput, mapped, calls, uploadErr,
                   commitErr, list>>

\* the transfer's context is cancelled from outside the transfer (job cancellation)
cancelJob ==
    /\ ~cancelled
    /\ calls.TransferDone = 0
    /\ cancelled' = TRUE
    /\ UNCHANGED <<sourceSize, blockSize, numChunks, prologue, startIndex,
                   blockIdCount, chunkChannel, jobs, blockIdsAllocated, blockIds,
                   nextUUID, status, chunksCompleted, throughput, mapped, calls,
                   uploadErr, commitErr, list>>

\* ---------------------------------------------------------------- the chunkFunc of generateUploadFunc

\* variant: the block id goes into the first free slot, as an append would do
SaveBlockId_FirstFree(ids, chunkId, encodedBlockId) ==
    LET free == {t \in DOMAIN ids : ids[t] = NoBlockId}
    IN  [ids EXCEPT ![CHOOSE t \in free : \A u \in free : t <= u] = encodedBlockId]

\* localToBlockBlob.blockIds[chunkId] = encodedBlockId
SaveBlockId(ids, chunkId, encodedBlockId) == [ids EXCEPT ![chunkId] = encodedBlockId]

\* what an I/O call under the transfer's context can return
IoErrors == IF cancelled THEN {"nil", "cancel"} ELSE {"nil", "io"}

\* the cancellation check that opens the chunkFunc; when not cancelled, steps 1 and 2
chunkStart(i) ==
    /\ i \in DOMAIN jobs
    /\ jobs[i].pc = "start"
    /\ IF cancelled
          THEN /\ jobs' = [jobs EXCEPT ![i].pc = "skipDone", ![i].skipped = TRUE]
               /\ UNCHANGED <<blockIds, nextUUID, calls>>
          ELSE /\ jobs' = [jobs EXCEPT ![i].pc = "stage",
                                       ![i].blockId = EncodeToString(nextUUID)]
               /\ nextUUID' = nextUUID + 1
               /\ blockIds' = SaveBlockId(blockIds, jobs[i].chunkId, EncodeToString(nextUUID))
               /\ calls' = [calls EXCEPT !.slotWrites = @ \cup
                               {<<s, jobs[i].chunkId>> :
                                   s \in {t \in DOMAIN blockIds : blockIds'[t] # blockIds[t]}}]
    /\ UNCHANGED <<sourceSize, blockSize, numChunks, prologue, startIndex,
                   blockIdCount, chunkChannel, blockIdsAllocated, cancelled, status,
                   chunksCompleted, throughput, mapped, uploadErr,
                   commitErr, list>>

\* step 3: the chunk's slice of the mapped file is staged under the transfer's context
stageBlock(i) ==
    /\ i \in DOMAIN jobs
    /\ jobs[i].pc = "stage"
    /\ \E err \in IoErrors :
          jobs' = [jobs EXCEPT ![i].pc = IF err = "nil" THEN "updateBytes" ELSE "errCheck",
                               ![i].err = err,
                               ![i].staged = Append(@, jobs[i].blockId)]
    /\ calls' = [calls EXCEPT !.StageBlock = @ + 1,
                              !.readAfterUnmap = @ \/ ~mapped]
    /\ UNCHANGED <<sourceSize, blockSize, numChunks, prologue, startIndex,
                   blockIdCount, chunkChannel, blockIdsAllocated, blockIds, nextUUID,
                   cancelled, status, chunksCompleted, throughput, mapped,
                   uploadErr, commitErr, list>>

\* err != nil: was the transfer cancelled?
errCheck(i) ==
    /\ i \in DOMAIN jobs
    /\ jobs[i].pc = "errCheck"
    /\ jobs' = [jobs EXCEPT ![i].pc = IF cancelled THEN "failDone" ELSE "cancelFunc"]
    /\ UNCHANGED <<sourceSize, blockSize, numChunks, prologue, startIndex,
                   blockIdCount, chunkChannel, blockIdsAllocated, blockIds, nextUUID,
                   cancelled, status, chunksCompleted, throughput, mapped, calls,
                   uploadErr, commitErr, list>>

\* transfer.TransferCancelFunc()
TransferCancelFunc(i) ==
    /\ i \in DOMAIN jobs
    /\ jobs[i].pc = "cancelFunc"
    /\ cancelled' = TRUE
    /\ jobs' = [jobs EXCEPT ![i].pc = "setFailed"]
    /\ UNCHANGED <<sourceSize, blockSize, numChunks, prologue, startIndex,
                   blockIdCount, chunkChannel, blockIdsAllocated, blockIds, nextUUID,
                   status, chunksCompleted, throughput, mapped, calls, uploadErr,
                   commitErr, list>>

\* transfer.TransferStatus(common.TransferFailed) of the failing chunk
chunkFailed(i) ==
    /\ i \in DOMAIN jobs
    /\ jobs[i].pc = "setFailed"
    /\ status' = "Failed"
    /\ jobs' = [jobs EXCEPT ![i].pc = "failDone", ![i].markedFailed = TRUE]
    /\ calls' = [calls EXCEPT !.statusWrites = Append(@, "Failed")]
    /\ UNCHANGED <<sourceSize, blockSize, numChunks, prologue, startIndex,
                   blockIdCount, chunkChannel, blockIdsAllocated, blockIds, nextUUID,
                   cancelled, chunksCompleted, throughput, mapped, uploadErr,
                   commitErr, list>>

\* variant: the nominal chunk size is added instead of the chunk's own length
updateCurrentBytes_Nominal(i) ==
    /\ i \in DOMAIN jobs
    /\ jobs[i].pc = "updateBytes"
    /\ throughput' = throughput + blockSize
    /\ jobs' = [jobs EXCEPT ![i].pc = "okDone", ![i].added = @ + blockSize]
    /\ UNCHANGED <<sourceSize, blockSize, numChunks, prologue, startIndex,
                   blockIdCount, chunkChannel, blockIdsAllocated, blockIds, nextUUID,
                   cancelled, status, chunksCompleted, mapped, calls,
                   uploadErr, commitErr, list>>

\* JobThroughPut.updateCurrentBytes(adjustedChunkSize)
updateCurrentBytes(i) ==
    /\ i \in DOMAIN jobs
    /\ jobs[i].pc = "updateBytes"
    /\ throughput' = throughput + jobs[i].adjustedChunkSize
    /\ jobs' = [jobs EXCEPT ![i].pc = "okDone", ![i].added = @ + jobs[i].adjustedChunkSize]
    /\ UNCHANGED <<sourceSize, blockSize, numChunks, prologue, startIndex,
                   blockIdCount, chunkChannel, blockIdsAllocated, blockIds, nextUUID,
                   cancelled, status, chunksCompleted, mapped, calls,
                   uploadErr, commitErr, list>>

\* variant: the chunk before the last one is taken for the last
CountChunk_Early(i, last) ==
    /\ chunksCompleted' = ChunksDone(chunksCompleted)
    /\ jobs' = [jobs EXCEPT ![i].pc = IF chunksCompleted' = numChunks - 1 THEN last ELSE "done",
                            ![i].done = Append(@, chunksCompleted'),
                            ![i].cancelledAtDone = cancelled]
    /\ UNCHANGED <<sourceSize, blockSize, numChunks, prologue, startIndex,
                   blockIdCount, chunkChannel, blockIdsAllocated, blockIds, nextUUID,
                   cancelled, status, throughput, mapped, calls, uploadErr,
                   commitErr, list>>

\* if transfer.ChunksDone() == totalNumOfChunks: the job goes to last if so, else it returns
CountChunk(i, last) ==
    /\ chunksCompleted' = ChunksDone(chunksCompleted)
    /\ jobs' = [jobs EXCEPT ![i].pc = IF chunksCompleted' = numChunks THEN last ELSE "done",
                            ![i].done = Append(@, chunksCompleted'),
                            ![i].cancelledAtDone = cancelled]
    /\ UNCHANGED <<sourceSize, blockSize, numChunks, prologue, startIndex,
                   blockIdCount, chunkChannel, blockIdsAllocated, blockIds, nextUUID,
                   cancelled, status, throughput, mapped, calls, uploadErr,
                   commitErr, list>>

\* variant: the cancelled branch returns without counting the chunk
skipDone_NoCount(i) ==
    /\ i \in DOMAIN jobs
    /\ jobs[i].pc = "skipDone"
    /\ jobs' = [jobs EXCEPT ![i].pc = "done"]
    /\ UNCHANGED <<sourceSize, blockSize, numChunks, prologue, startIndex,
                   blockIdCount, chunkChannel, blockIdsAllocated, blockIds, nextUUID,
                   cancelled, status, chunksCompleted, throughput, mapped, calls,
                   uploadErr, commitErr, list>>

\* the ChunksDone() of the cancelled branch
skipDone(i) ==
    /\ i \in DOMAIN jobs
    /\ jobs[i].pc = "skipDone"
    /\ CountChunk(i, "transferDone")

\* variant: the return that ends the err != nil branch is missing
failDone_NoReturn(i) ==
    /\ i \in DOMAIN jobs
    /\ jobs[i].pc = "failDone"
    /\ chunksCompleted' = ChunksDone(chunksCompleted)
    /\ jobs' = [jobs EXCEPT ![i].pc = "updateBytes",
                            ![i].done = Append(@, chunksCompleted'),
                            ![i].cancelledAtDone = cancelled]
    /\ UNCHANGED <<sourceSize, blockSize, numChunks, prologue, startIndex,
                   blockIdCount, chunkChannel, blockIdsAllocated, blockIds, nextUUID,
                   cancelled, status, throughput, mapped, calls, uploadErr,
                   commitErr, list>>

\* the ChunksDone() of the err != nil branch
failDone(i) ==
    /\ i \in DOMAIN jobs
    /\ jobs[i].pc = "failDone"
    /\ CountChunk(i, "transferDone")

\* step 4: the ChunksDone() after a staged block
okDone(i) ==
    /\ i \in DOMAIN jobs
    /\ jobs[i].pc = "okDone"
    /\ CountChunk(i, "epilogue")

\* variant: the return after transferDone() is missing, the worker goes on to commit
epilogue_NoReturn(i) ==
    /\ i \in DOMAIN jobs
    /\ jobs[i].pc = "epilogue"
    /\ jobs' = [jobs EXCEPT ![i].pc = "commit"]
    /\ IF cancelled
          THEN /\ calls' = [calls EXCEPT !.TransferDone = @ + 1, !.Unmap = @ + 1,
                                         !.Close = @ + 1]
               /\ mapped' = FALSE
          ELSE UNCHANGED <<calls, mapped>>
    /\ UNCHANGED <<sourceSize, blockSize, numChunks, prologue, startIndex,
                   blockIdCount, chunkChannel, blockIdsAllocated, blockIds, nextUUID,
                   cancelled, status, chunksCompleted, throughput,
                   uploadErr, commitErr, list>>

\* variant: the last worker commits without looking at the cancellation
epilogue_NoCancelCheck(i) ==
    /\ i \in DOMAIN jobs
    /\ jobs[i].pc = "epilogue"
    /\ jobs' = [jobs EXCEPT ![i].pc = "commit"]
    /\ UNCHANGED <<sourceSize, blockSize, numChunks, prologue, startIndex,
                   blockIdCount, chunkChannel, blockIdsAllocated, blockIds, nextUUID,
                   cancelled, status, chunksCompleted, throughput, mapped, calls,
                   uploadErr, commitErr, list>>

\* "If the transfer gets cancelled before the putblock list"
epilogue(i) ==
    /\ i \in DOMAIN jobs
    /\ jobs[i].pc = "epilogue"
    /\ jobs' = [jobs EXCEPT ![i].pc = IF cancelled THEN "transferDone" ELSE "commit",
                            ![i].epilogueCtxErr = IF cancelled THEN "cancelled" ELSE "nil"]
    /\ UNCHANGED <<sourceSize, blockSize, numChunks, prologue, startIndex,
                   blockIdCount, chunkChannel, blockIdsAllocated, blockIds, nextUUID,
                   cancelled, status, chunksCompleted, throughput, mapped, calls,
                   uploadErr, commitErr, list>>

\* step 5: headers from the mapped file, then CommitBlockList(blockIds)
commitBlockList(i) ==
    /\ i \in DOMAIN jobs
    /\ jobs[i].pc = "commit"
    /\ \E err \in IoErrors : commitErr' = err
    /\ calls' = [calls EXCEPT !.CommitBlockList = Append(@, blockIds),
                              !.readAfterUnmap = @ \/ ~mapped]
    /\ jobs' = [jobs EXCEPT ![i].pc = "committed"]
    /\ UNCHANGED <<sourceSize, blockSize, numChunks, prologue, startIndex,
                   blockIdCount, chunkChannel, blockIdsAllocated, blockIds, nextUUID,
                   cancelled, status, chunksCompleted, throughput, mapped,
                   uploadErr, list>>

\* variant: the finalizing worker calls transferDone() before it sets the status
committed_DoneFirst(i) ==
    /\ i \in DOMAIN jobs
    /\ jobs[i].pc = "committed"
    /\ IF calls.TransferDone = 0
          THEN /\ calls' = [calls EXCEPT !.TransferDone = @ + 1, !.Unmap = @ + 1,
                                         !.Close = @ + 1]
               /\ mapped' = FALSE
               /\ UNCHANGED <<status, jobs>>
          ELSE /\ status' = IF commitErr # "nil" THEN "Failed" ELSE "Complete"
               /\ calls' = [calls EXCEPT !.statusWrites = Append(@, status')]
               /\ jobs' = [jobs EXCEPT ![i].pc = "done"]
               /\ UNCHANGED mapped
    /\ UNCHANGED <<sourceSize, blockSize, numChunks, prologue, startIndex,
                   blockIdCount, chunkChannel, blockIdsAllocated, blockIds, nextUUID,
                   cancelled, chunksCompleted, throughput, uploadErr,
                   commitErr, list>>

\* TransferStatus(TransferFailed) or TransferStatus(TransferComplete) after the commit
committed(i) ==
    /\ i \in DOMAIN jobs
    /\ jobs[i].pc = "committed"
    /\ status' = IF commitErr # "nil" THEN "Failed" ELSE "Complete"
    /\ calls' = [calls EXCEPT !.statusWrites = Append(@, status')]
    /\ jobs' = [jobs EXCEPT ![i].pc = "transferDone"]
    /\ UNCHANGED <<sourceSize, blockSize, numChunks, prologue, startIndex,
                   blockIdCount, chunkChannel, blockIdsAllocated, blockIds, nextUUID,
                   cancelled, chunksCompleted, throughput, mapped, uploadErr,
                   commitErr, list>>

\* the closure transferDone: TransferDone(), Unmap(), Close()
transferDone(i) ==
    /\ i \in DOMAIN jobs
    /\ jobs[i].pc = "transferDone"
    /\ calls' = [calls EXCEPT !.TransferDone = @ + 1, !.Unmap = @ + 1, !.Close = @ + 1]
    /\ mapped' = FALSE
    /\ jobs' = [jobs EXCEPT ![i].pc = "done"]
    /\ UNCHANGED <<sourceSize, blockSize, numChunks, prologue, startIndex,
                   blockIdCount, chunkChannel, blockIdsAllocated, blockIds, nextUUID,
                   cancelled, status, chunksCompleted, throughput, uploadErr,
                   commitErr, list>>

\* ---------------------------------------------------------------- putBlob

\* blobHttpHeaderAndMetadata(memoryMappedFile), then Upload of nil or of the whole mapped file
putBlobUpload ==
    /\ prologue = "putBlob"
    /\ \E err \in IoErrors : uploadErr' = err
    /\ calls' = [calls EXCEPT !.Upload = @ + 1,
                              !.readAfterUnmap = @ \/ (sourceSize # 0 /\ ~mapped)]
    /\ prologue' = "putBlobStatus"
    /\ UNCHANGED <<sourceSize, blockSize, numChunks, startIndex, blockIdCount,
                   chunkChannel, jobs, blockIdsAllocated, blockIds, nextUUID,
                   cancelled, status, chunksCompleted, throughput, mapped,
                   commitErr, list>>

\* variant: a failed Upload marks the transfer Failed without looking at the cancellation
putBlobStatus_NoCtxCheck ==
    /\ prologue = "putBlobStatus"
    /\ status' = IF uploadErr # "nil" THEN "Failed" ELSE "Complete"
    /\ calls' = [calls EXCEPT !.statusWrites = Append(@, status'),
                              !.putBlobCtxErr = IF uploadErr = "nil" THEN @
                                                ELSE IF cancelled THEN "cancelled" ELSE "nil"]
    /\ prologue' = "putBlobDone"
    /\ UNCHANGED <<sourceSize, blockSize, numChunks, startIndex, blockIdCount,
                   chunkChannel, jobs, blockIdsAllocated, blockIds, nextUUID,
                   cancelled, chunksCompleted, throughput, mapped,
                   uploadErr, commitErr, list>>

\* "if the put blob is a failure, updating the transfer status to failed"
putBlobStatus ==
    /\ prologue = "putBlobStatus"
    /\ status' = IF uploadErr # "nil"
                    THEN (IF cancelled THEN status ELSE "Failed")
                    ELSE "Complete"
    /\ calls' = [calls EXCEPT !.statusWrites = IF uploadErr # "nil" /\ cancelled
                                                  THEN @ ELSE Append(@, status'),
                              !.putBlobCtxErr = IF uploadErr = "nil" THEN @
                                                ELSE IF cancelled THEN "cancelled" ELSE "nil"]
    /\ prologue' = "putBlobDone"
    /\ UNCHANGED <<sourceSize, blockSize, numChunks, startIndex, blockIdCount,
                   chunkChannel, jobs, blockIdsAllocated, blockIds, nextUUID,
                   cancelled, chunksCompleted, throughput, mapped,
                   uploadErr, commitErr, list>>

\* variant: the clean up is done only after a successful Upload
putBlobDone_LeakOnFailure ==
    /\ prologue = "putBlobDone"
    /\ IF sourceSize # 0 /\ uploadErr = "nil"
          THEN /\ throughput' = throughput + sourceSize
               /\ calls' = [calls EXCEPT !.TransferDone = @ + 1, !.Unmap = @ + 1,
                                         !.Close = @ + 1]
               /\ mapped' = FALSE
          ELSE /\ calls' = [calls EXCEPT !.TransferDone = @ + 1]
               /\ UNCHANGED <<throughput, mapped>>
    /\ prologue' = "returned"
    /\ UNCHANGED <<sourceSize, blockSize, numChunks, startIndex, blockIdCount,
                   chunkChannel, jobs, blockIdsAllocated, blockIds, nextUUID,
                   cancelled, status, chunksCompleted, uploadErr, commitErr, list>>

\* TransferDone(), then the clean up "for the case where blob size is not 0"
putBlobDone ==
    /\ prologue = "putBlobDone"
    /\ IF sourceSize # 0
          THEN /\ throughput' = throughput + sourceSize
               /\ calls' = [calls EXCEPT !.TransferDone = @ + 1, !.Unmap = @ + 1,
                                         !.Close = @ + 1]
               /\ mapped' = FALSE
          ELSE /\ calls' = [calls EXCEPT !.TransferDone = @ + 1]
               /\ UNCHANGED <<throughput, mapped>>
    /\ prologue' = "returned"
    /\ UNCHANGED <<sourceSize, blockSize, numChunks, startIndex, blockIdCount,
                   chunkChannel, jobs, blockIdsAllocated, blockIds, nextUUID,
                   cancelled, status, chunksCompleted, uploadErr, commitErr, list>>

\* ---------------------------------------------------------------- specification

ChunkIds == 0..MaxSourceSize

Next ==
    \/ runPrologue
    \/ scheduleChunk
    \/ cancelJob
    \/ putBlobUpload
    \/ putBlobStatus
    \/ putBlobDone
    \/ \E i \in ChunkIds : pickUp(i)
    \/ \E i \in ChunkIds : chunkStart(i)
    \/ \E i \in ChunkIds : stageBlock(i)
    \/ \E i \in ChunkIds : errCheck(i)
    \/ \E i \in ChunkIds : TransferCancelFunc(i)
    \/ \E i \in ChunkIds : chunkFailed(i)
    \/ \E i \in ChunkIds : updateCurrentBytes(i)
    \/ \E i \in ChunkIds : skipDone(i)
    \/ \E i \in ChunkIds : failDone(i)
    \/ \E i \in ChunkIds : okDone(i)
    \/ \E i \in ChunkIds : epilogue(i)
    \/ \E i \in ChunkIds : commitBlockList(i)
    \/ \E i \in ChunkIds : committed(i)
    \/ \E i \in ChunkIds : transferDone(i)

Spec == Init /\ [][Next]_vars

\* a step of the prologue or of a worker: everything but the cancellation from outside
WorkerStep ==
    \/ runPrologue
    \/ scheduleChunk
    \/ putBlobUpload
    \/ putBlobStatus
    \/ putBlobDone
    \/ \E i \in ChunkIds : pickUp(i)
    \/ \E i \in ChunkIds : chunkStart(i)
    \/ \E i \in ChunkIds : stageBlock(i)
    \/ \E i \in ChunkIds : errCheck(i)
    \/ \E i \in ChunkIds : TransferCancelFunc(i)
    \/ \E i \in ChunkIds : chunkFailed(i)
    \/ \E i \in ChunkIds : updateCurrentBytes(i)
    \/ \E i \in ChunkIds : skipDone(i)
    \/ \E i \in ChunkIds : failDone(i)
    \/ \E i \in ChunkIds : okDone(i)
    \/ \E i \in ChunkIds : epilogue(i)
    \/ \E i \in ChunkIds : commitBlockList(i)
    \/ \E i \in ChunkIds : committed(i)
    \/ \E i \in ChunkIds : transferDone(i)

\* the prologue and the workers keep running: some enabled step of theirs is eventually taken,
\* which includes that a StageBlock or CommitBlockList call returns
SpecLive == Init /\ [][Next]_vars /\ WF_vars(WorkerStep)

\* ---------------------------------------------------------------- the list command (package cmd)

\* math.MaxUint32, the value of an unrecognized status string, as the 32-bit pattern 0xFFFFFFFF
MaxUint32 == -1

\* common.EmptyJobId
EmptyJobId == <<"JobID", 0>>

\* common.TransferStatusStringToCode
TransferStatusStringToCode(str) ==
    CASE str = "NotStarted" -> 0
      [] str = "InProgress" -> 1
      [] str = "Complete" -> 2
      [] str = "Failed" -> 3
      [] str = "Cancelled" -> 4
      [] OTHER -> MaxUint32

\* common.ParseJobID
ParseJobID(str) ==
    CASE str = "00000000-0000" -> [err |-> FALSE, jobId |-> EmptyJobId]
      [] str = "6f91a3c2-0001" -> [err |-> FALSE, jobId |-> <<"JobID", 1>>]
      [] str = "6f91a3c2-0002" -> [err |-> FALSE, jobId |-> <<"JobID", 2>>]
      [] OTHER -> [err |-> TRUE, jobId |-> EmptyJobId]

\* command lines of "azcopy list": the arguments and the value of --with-status
ListArgs == {<<>>, <<"00000000-0000">>, <<"6f91a3c2-0001">>, <<"6f91a3c2-0002">>,
             <<"not-a-job-id">>, <<"6f91a3c2-0001", "extra">>}
ListStatuses == {"", "InProgress", "Complete", "Failed", "Cancelled", "complete", "Done"}

\* what common.Rpc hands back as the response bytes
ListResponses == {"payload", "errorMessage", "malformed"}

\* commandLineInput of init(), after cobra has parsed the flags
InitList ==
    /\ \E a \in ListArgs, st \in ListStatuses :
          list = [pc |-> "Args", args |-> a, OfStatus |-> st, JobId |-> EmptyJobId,
                  rpc |-> <<>>, printed |-> <<>>]
    /\ sourceSize = 0
    /\ blockSize = MinBlockSize
    /\ numChunks = 0
    /\ prologue = "start"
    /\ startIndex = 0
    /\ blockIdCount = 0
    /\ chunkChannel = <<>>
    /\ jobs = <<>>
    /\ blockIdsAllocated = FALSE
    /\ blockIds = <<>>
    /\ nextUUID = 1
    /\ cancelled = FALSE
    /\ status = "InProgress"
    /\ chunksCompleted = 0
    /\ throughput = 0
    /\ mapped = FALSE
    /\ calls = NoCalls
    /\ uploadErr = "none"
    /\ commitErr = "none"

\* the Args function of lsCmd
lsCmdArgs ==
    /\ list.pc = "Args"
    /\ IF Len(list.args) > 0
          THEN IF ParseJobID(list.args[1]).err
                  THEN list' = [list EXCEPT !.pc = "Run",
                                            !.printed = Append(@, <<"invalid job Id given", list.args[1]>>)]
                  ELSE list' = [list EXCEPT !.pc = "Run",
                                            !.JobId = ParseJobID(list.args[1]).jobId]
          ELSE list' = [list EXCEPT !.pc = "Run"]
    /\ UNCHANGED xferVars

\* variant: the test for an empty status string is inverted
InvalidStatusGiven_EmptyOnly(req) ==
    req.OfStatus = "" /\ TransferStatusStringToCode(req.OfStatus) = MaxUint32

\* "check whether ofstatus transfer status is valid or not"
InvalidStatusGiven(req) ==
    req.OfStatus # "" /\ TransferStatusStringToCode(req.OfStatus) = MaxUint32

\* variant: the two commands that take a job id are exchanged
RpcCommand_Swapped(req) ==
    IF req.JobId = EmptyJobId THEN "listJobs"
    ELSE IF req.OfStatus = "" THEN "listJobTransfers"
    ELSE "listJobProgressSummary"

\* the command HandleListCommand passes to common.Rpc
RpcCommand(req) ==
    IF req.JobId = EmptyJobId THEN "listJobs"
    ELSE IF req.OfStatus = "" THEN "listJobProgressSummary"
    ELSE "listJobTransfers"

\* the printer HandleListCommand hands the response to
Printer(req) ==
    IF req.JobId = EmptyJobId THEN "PrintExistingJobIds"
    ELSE IF req.OfStatus = "" THEN "PrintJobProgressSummary"
    ELSE "PrintJobTransfers"

\* the Run function of lsCmd: HandleListCommand(commandLineInput); a printer panics
\* on a response that json.Unmarshal rejects
HandleListCommand ==
    /\ list.pc = "Run"
    /\ IF InvalidStatusGiven(list)
          THEN list' = [list EXCEPT !.pc = "done",
                                    !.printed = Append(@, <<"invalid transfer status passed", list.OfStatus>>)]
          ELSE \E response \in ListResponses :
                  list' = [list EXCEPT !.pc = IF response = "malformed" THEN "panic" ELSE "done",
                                       !.rpc = Append(@, RpcCommand(list)),
                                       !.printed = Append(@, <<Printer(list), response>>)]
    /\ UNCHANGED xferVars

NextList ==
    \/ lsCmdArgs
    \/ HandleListCommand

SpecList == InitList /\ [][NextList]_vars

\* ---------------------------------------------------------------- properties

\* C1: in a chunked transfer at most one chunkFunc ever observes
\* ChunksDone() == numChunks and, once every chunkFunc has counted, exactly
\* one has; TransferDone, Unmap and Close run at most once, only after each of
\* the numChunks chunkFuncs has made its one increment, and exactly once when
\* all chunkFuncs have returned; CommitBlockList is invoked at most once.
C1_FinalizeExactlyOnce ==
    ~(sourceSize = 0 \/ sourceSize <= blockSize) =>
        LET observers == {i \in DOMAIN jobs :
                             \E k \in 1..Len(jobs[i].done) : jobs[i].done[k] = numChunks}
            allCounted == \A i \in 0..(numChunks - 1) :
                             i \in DOMAIN jobs /\ Len(jobs[i].done) = 1
            allReturned == /\ prologue = "returned"
                           /\ \A i \in DOMAIN jobs : jobs[i].pc = "done"
        IN  /\ Cardinality(observers) <= 1
            /\ calls.TransferDone <= 1 /\ calls.Unmap <= 1 /\ calls.Close <= 1
            /\ Len(calls.CommitBlockList) <= 1
            /\ (calls.TransferDone > 0 \/ calls.CommitBlockList # <<>>) => allCounted
            /\ allCounted => Cardinality(observers) = 1
            /\ allReturned => calls.TransferDone = 1 /\ calls.Unmap = 1 /\ calls.Close = 1

\* a three-chunk transfer has finalized after one chunk was staged, one failed and one was skipped
C1_Witness ==
    /\ numChunks = 3
    /\ prologue = "returned"
    /\ \A i \in DOMAIN jobs : jobs[i].pc = "done"
    /\ calls.TransferDone = 1
    /\ \E i, j, k \in DOMAIN jobs :
          jobs[i].err = "nil" /\ jobs[j].err \in {"io", "cancel"} /\ jobs[k].skipped

\* C2: every block list passed to CommitBlockList holds at each index
\* i in 0..numChunks-1 the block id that the chunkFunc of chunk index i
\* generated and staged, and every write to a slot of blockIds was made by the
\* chunkFunc whose chunk index is that slot.
C2_CommitInChunkIndexOrder ==
    /\ \A k \in 1..Len(calls.CommitBlockList) :
          LET l == calls.CommitBlockList[k] IN
          /\ DOMAIN l = 0..(numChunks - 1)
          /\ \A i \in DOMAIN l : /\ i \in DOMAIN jobs
                                /\ l[i] # NoBlockId
                                /\ l[i] = jobs[i].blockId
                                /\ jobs[i].staged = <<l[i]>>
    /\ \A w \in calls.slotWrites : w[1] = w[2]

\* a three-chunk list was committed although chunk 0 got its block id after chunk 1
\* and counted after chunk 2
C2_Witness ==
    /\ numChunks = 3
    /\ Len(calls.CommitBlockList) = 1
    /\ calls.CommitBlockList[1][0][2] > calls.CommitBlockList[1][1][2]
    /\ jobs[0].done[1] > jobs[2].done[1]

\* C3 as stated: once a chunkFunc of a chunked transfer has found the
\* cancellation set at its start, CommitBlockList is never invoked and the
\* transfer finalizes with status Cancelled or Failed.
C3_FinalizesCancelledOrFailed ==
    (\E i \in DOMAIN jobs : jobs[i].skipped) =>
        /\ calls.CommitBlockList = <<>>
        /\ calls.TransferDone > 0 => status \in {"Cancelled", "Failed"}

\* C3 amended: once a chunkFunc of a chunked transfer has found the
\* cancellation set at its start, CommitBlockList is never invoked, the status
\* is never Complete, and the status is Failed exactly when the failing chunk
\* wrote it and otherwise still the status the transfer had before.
C3_NeverCompleteNoCommit ==
    (\E i \in DOMAIN jobs : jobs[i].skipped) =>
        /\ calls.CommitBlockList = <<>>
        /\ status # "Complete"
        /\ status = IF \E j \in DOMAIN jobs : jobs[j].markedFailed
                       THEN "Failed" ELSE "InProgress"

\* a transfer has finalized with a mix of staged and skipped chunks
C3_Witness ==
    /\ calls.TransferDone = 1
    /\ \E i, j \in DOMAIN jobs : jobs[i].skipped /\ jobs[j].err = "nil"

\* C4: a chunk whose StageBlock failed while the transfer was not cancelled
\* makes the finalized transfer Failed, and the cancellation is set when that
\* chunk counts itself done.
C4_HardFailureFinalizesFailed ==
    \A i \in DOMAIN jobs :
        jobs[i].err = "io" =>
            /\ calls.TransferDone > 0 => status = "Failed"
            /\ jobs[i].done # <<>> => jobs[i].cancelledAtDone

\* C5: a chunkFunc that found the cancellation set at its start makes no
\* StageBlock call, generates no block id, writes no slot of blockIds, adds
\* nothing to the throughput, and increments the counter exactly once before it
\* returns.
C5_CancelledChunkOnlyCounts ==
    \A i \in DOMAIN jobs :
        jobs[i].skipped =>
            /\ jobs[i].staged = <<>>
            /\ jobs[i].blockId = NoBlockId
            /\ \A w \in calls.slotWrites : w[2] # i
            /\ jobs[i].added = 0
            /\ Len(jobs[i].done) <= 1
            /\ jobs[i].pc \in {"transferDone", "done"} => Len(jobs[i].done) = 1

\* a skipped chunkFunc has returned while another chunk's block was staged
C5_Witness ==
    \E i, j \in DOMAIN jobs :
        /\ jobs[i].skipped /\ jobs[i].pc = "done"
        /\ jobs[j].staged # <<>>
        /\ calls.StageBlock > 0 /\ throughput > 0

\* C6: when sourceSize > 0 the file stays mapped until it is unmapped, Unmap
\* and Close are never called twice, both have been called once when the
\* transfer has been marked done, and both have been called once when the
\* prologue and all chunkFuncs have returned.
C6_ReleasedExactlyOnce ==
    sourceSize > 0 =>
        /\ calls.Unmap <= 1 /\ calls.Close <= 1
        /\ (prologue # "start" /\ calls.Unmap = 0) => mapped
        /\ calls.TransferDone > 0 => (calls.Unmap = 1 /\ calls.Close = 1 /\ ~mapped)
        /\ (prologue = "returned" /\ \A i \in DOMAIN jobs : jobs[i].pc = "done")
              => (calls.Unmap = 1 /\ calls.Close = 1)

\* a chunked transfer whose commit failed has released the file
C6_Witness ==
    /\ commitErr = "io"
    /\ calls.TransferDone = 1
    /\ calls.Unmap = 1 /\ calls.Close = 1

\* C7: when sourceSize == 0 or sourceSize <= chunkSize the prologue makes one
\* Upload, sends nothing on the chunk channel, never calls StageBlock or
\* CommitBlockList, leaves blockIds unallocated and chunksCompleted at 0.
C7_SmallObjectSingleUpload ==
    (sourceSize = 0 \/ sourceSize <= blockSize) =>
        /\ calls.Upload <= 1
        /\ prologue \in {"putBlobStatus", "putBlobDone", "returned"} => calls.Upload = 1
        /\ prologue # "schedule"
        /\ calls.sent = <<>> /\ chunkChannel = <<>> /\ DOMAIN jobs = {}
        /\ calls.StageBlock = 0 /\ calls.CommitBlockList = <<>>
        /\ ~blockIdsAllocated /\ DOMAIN blockIds = {}
        /\ chunksCompleted = 0

\* a source of exactly one block has gone through putBlob
C7_Witness ==
    /\ sourceSize = blockSize
    /\ prologue = "returned"
    /\ calls.Upload = 1

\* C8: for sourceSize > chunkSize > 0 the k-th chunkFunc sent starts at
\* k*chunkSize, each range ends where the next starts, every range followed by
\* another has length chunkSize, and when the prologue has returned the last
\* range ends at sourceSize with length sourceSize mod chunkSize (chunkSize
\* when that is 0).
C8_RangesTile ==
    (sourceSize > blockSize /\ blockSize > 0) =>
        LET n == Len(calls.sent) IN
        /\ DOMAIN jobs = 0..(n - 1)
        /\ \A k \in DOMAIN jobs :
              /\ jobs[k].startIndex = k * blockSize
              /\ jobs[k].adjustedChunkSize > 0
              /\ jobs[k].startIndex + jobs[k].adjustedChunkSize <= sourceSize
              /\ (k + 1) \in DOMAIN jobs =>
                    /\ jobs[k].adjustedChunkSize = blockSize
                    /\ jobs[k].startIndex + jobs[k].adjustedChunkSize = jobs[k + 1].startIndex
        /\ prologue = "returned" =>
              /\ n > 0
              /\ jobs[n - 1].startIndex + jobs[n - 1].adjustedChunkSize = sourceSize
              /\ jobs[n - 1].adjustedChunkSize =
                    IF sourceSize % blockSize = 0 THEN blockSize ELSE sourceSize % blockSize

\* sourceSize 5 in blocks of 2 has been cut into [0,2), [2,4), [4,5)
C8_Witness ==
    /\ sourceSize = 5 /\ blockSize = 2
    /\ prologue = "returned"
    /\ DOMAIN jobs = 0..2
    /\ jobs[2].startIndex = 4 /\ jobs[2].adjustedChunkSize = 1

\* C9: for sourceSize > chunkSize > 0, numChunks is the least n with
\* n*chunkSize >= sourceSize; the prologue sends chunk indices 0,1,2,... in
\* that order, never more than numChunks and exactly numChunks when it has
\* returned; blockIds has numChunks slots; and a chunkFunc goes on to finalize
\* only on the increment that returned numChunks.
C9_NumChunksIsCeil ==
    (sourceSize > blockSize /\ blockSize > 0) =>
        LET ceil == CHOOSE n \in 1..sourceSize :
                        n * blockSize >= sourceSize /\ (n - 1) * blockSize < sourceSize
        IN
        /\ numChunks = ceil
        /\ Len(calls.sent) <= ceil
        /\ \A k \in 1..Len(calls.sent) : calls.sent[k] = k - 1
        /\ prologue = "returned" => Len(calls.sent) = ceil
        /\ prologue # "start" => (blockIdsAllocated /\ DOMAIN blockIds = 0..(ceil - 1))
        /\ \A i \in DOMAIN jobs :
              jobs[i].pc \in {"transferDone", "epilogue", "commit", "committed"}
                 => jobs[i].done = <<ceil>>

\* sourceSize 6 in blocks of 2: three chunkFuncs were sent and the third one finalizes
C9_Witness ==
    /\ sourceSize = 6 /\ blockSize = 2
    /\ prologue = "returned"
    /\ calls.sent = <<0, 1, 2>>
    /\ \E i \in DOMAIN jobs : jobs[i].pc = "transferDone" /\ jobs[i].done = <<3>>

\* C10: when HandleListCommand has run with a non-empty --with-status value
\* whose status code is the invalid-status value, no Rpc call was made,
\* whatever the job id.
C10_InvalidStatusNoRpc ==
    (/\ list.pc \in {"done", "panic"}
     /\ list.OfStatus # ""
     /\ TransferStatusStringToCode(list.OfStatus) = MaxUint32)
        => list.rpc = <<>>

\* HandleListCommand has rejected the status "Done" given with a job id
C10_Witness ==
    /\ list.pc = "done"
    /\ list.OfStatus = "Done"
    /\ list.JobId = <<"JobID", 1>>
    /\ list.rpc = <<>>
    /\ Len(list.printed) = 1

\* C11: when the list command has run with a job id argument that ParseJobID
\* rejects, no Rpc call of any command was made.
C11_UnparseableJobIdNoRpc ==
    (/\ list.pc \in {"done", "panic"}
     /\ Len(list.args) > 0
     /\ ParseJobID(list.args[1]).err)
        => list.rpc = <<>>

\* C12: when putBlob has written the status, it is Complete after a successful
\* Upload, Failed after a failed Upload with TransferContext.Err() == nil, and
\* the status the transfer had before after a failed Upload with
\* TransferContext.Err() != nil; TransferDone is never called twice on this
\* path; and when putBlob has returned TransferDone was called once and the
\* throughput is sourceSize (0 when sourceSize == 0).
C12_PutBlobOutcomes ==
    (sourceSize = 0 \/ sourceSize <= blockSize) =>
        /\ calls.TransferDone <= 1
        /\ prologue \in {"putBlobDone", "returned"} =>
              /\ uploadErr = "nil" => status = "Complete"
              /\ (uploadErr # "nil" /\ calls.putBlobCtxErr = "nil") => status = "Failed"
              /\ (uploadErr # "nil" /\ calls.putBlobCtxErr = "cancelled") =>
                    (status = "InProgress" /\ calls.statusWrites = <<>>)
        /\ prologue = "returned" =>
              /\ calls.TransferDone = 1
              /\ throughput = sourceSize
        /\ prologue # "returned" => (calls.TransferDone = 0 /\ throughput = 0)

\* putBlob of a non-empty source has returned after an Upload that failed on the cancellation
C12_Witness ==
    /\ sourceSize > 0
    /\ prologue = "returned"
    /\ uploadErr = "cancel"
    /\ calls.putBlobCtxErr = "cancelled"
    /\ status = "InProgress"
    /\ throughput = sourceSize

\* C13: under SpecLive, a chunked transfer whose prologue has started
\* scheduling eventually has all numChunks chunkFuncs sent, all of them returned
\* and TransferDone called, whenever the cancellation comes and whatever fails;
\* and while the prologue is scheduling, its send can be made exactly when the
\* channel is not full.
C13_ChunkedTransferFinalizes ==
    /\ (prologue = "schedule") ~>
          (/\ prologue = "returned"
           /\ Len(calls.sent) = numChunks
           /\ \A i \in 0..(numChunks - 1) : i \in DOMAIN jobs /\ jobs[i].pc = "done"
           /\ calls.TransferDone = 1)
    /\ [](prologue = "schedule" =>
             ((ENABLED scheduleChunk) <=> Len(chunkChannel) < ChanCap))

\* a transfer of more chunks than the channel holds, cancelled from outside, has finalized
C13_Witness ==
    /\ numChunks > ChanCap
    /\ cancelled
    /\ \A i \in DOMAIN jobs : ~jobs[i].markedFailed
    /\ prologue = "returned"
    /\ Len(calls.sent) = numChunks
    /\ \A i \in DOMAIN jobs : jobs[i].pc = "done"
    /\ calls.TransferDone = 1
    /\ \E i \in DOMAIN jobs : jobs[i].skipped

\* C14: no StageBlock body and no header derivation reads the mapped file
\* after Unmap; when a chunked transfer has called Unmap, every one of its
\* numChunks chunkFuncs has returned and one of them had observed
\* ChunksDone() == numChunks.
C14_NoReadAfterUnmap ==
    /\ ~calls.readAfterUnmap
    /\ (~(sourceSize = 0 \/ sourceSize <= blockSize) /\ calls.Unmap > 0) =>
          /\ \A i \in 0..(numChunks - 1) : i \in DOMAIN jobs /\ jobs[i].pc = "done"
          /\ \E i \in DOMAIN jobs : jobs[i].done = <<numChunks>>

\* the file was unmapped after three StageBlock calls and the header derivation of the commit
C14_Witness ==
    /\ numChunks = 3
    /\ calls.StageBlock = 3
    /\ Len(calls.CommitBlockList) = 1
    /\ calls.Unmap = 1
    /\ ~mapped

\* C15: a StageBlock error caused by the cancellation never makes its chunk
\* write Failed, a CommitBlockList error caused by the cancellation leaves the
\* status as it was, and the status is Failed only after an error that was not
\* caused by the cancellation.
C15_CancelErrorsLeaveStatus ==
    /\ \A i \in DOMAIN jobs : jobs[i].err = "cancel" => ~jobs[i].markedFailed
    /\ (commitErr = "cancel" /\ \A i \in DOMAIN jobs : ~jobs[i].markedFailed)
          => status = "InProgress"
    /\ status = "Failed" =>
          \/ \E i \in DOMAIN jobs : jobs[i].err = "io"
          \/ commitErr = "io"
          \/ uploadErr = "io"

\* C16: a step never changes the status once it is Complete and makes no
\* status write then; never changes a Failed status; never sets a status other
\* than Failed or Complete; and a step that calls TransferDone (transferDone()
\* of the finalizing worker, the end of putBlob) writes no status.
C16_StatusMovesForward ==
    [][/\ status = "Complete" =>
             (status' = "Complete" /\ calls'.statusWrites = calls.statusWrites)
       /\ status = "Failed" => status' = "Failed"
       /\ status' \in {status, "Failed", "Complete"}
       /\ calls'.TransferDone # calls.TransferDone =>
             (status' = status /\ calls'.statusWrites = calls.statusWrites)
       /\ \A k \in 1..Len(calls'.statusWrites) :
             calls'.statusWrites[k] \in {"Failed", "Complete"}]_vars

\* a skipped chunkFunc has finalized a transfer that a failing chunk had marked Failed
C16_Witness ==
    /\ status = "Failed"
    /\ calls.TransferDone = 1
    /\ \E i \in DOMAIN jobs : jobs[i].skipped /\ jobs[i].done = <<numChunks>>
    /\ \E j \in DOMAIN jobs : jobs[j].markedFailed

\* C17: chunksCompleted stays within 0..numChunks and a step never decreases
\* it nor adds more than 1; no chunkFunc increments it twice, each has
\* incremented it once when it is past its ChunksDone() on any of its three
\* paths, the values returned are 1..chunksCompleted, one per increment; and
\* when all chunkFuncs have returned there were numChunks increments, exactly
\* one of which returned numChunks.
C17_CounterProtocol ==
    /\ [](/\ chunksCompleted \in 0..numChunks
          /\ \A i \in DOMAIN jobs :
                /\ Len(jobs[i].done) <= 1
                /\ jobs[i].pc \in {"transferDone", "epilogue", "commit", "committed", "done"}
                      => Len(jobs[i].done) = 1
                /\ jobs[i].pc \in {"queued", "start", "stage", "errCheck", "cancelFunc",
                                   "setFailed", "updateBytes", "skipDone", "failDone", "okDone"}
                      => jobs[i].done = <<>>
          /\ {jobs[i].done[1] : i \in {j \in DOMAIN jobs : jobs[j].done # <<>>}}
                = 1..chunksCompleted
          /\ Cardinality({j \in DOMAIN jobs : jobs[j].done # <<>>}) = chunksCompleted
          /\ (/\ ~(sourceSize = 0 \/ sourceSize <= blockSize)
              /\ prologue = "returned"
              /\ \A i \in DOMAIN jobs : jobs[i].pc = "done")
                => /\ chunksCompleted = numChunks
                   /\ Cardinality({j \in DOMAIN jobs : jobs[j].done = <<numChunks>>}) = 1)
    /\ [][chunksCompleted' \in {chunksCompleted, chunksCompleted + 1}]_vars

\* the two chunkFuncs of a transfer have counted themselves, one after a failed
\* StageBlock and one after being skipped
C17_Witness ==
    /\ numChunks = 2
    /\ chunksCompleted = 2
    /\ \E i, j \in DOMAIN jobs :
          /\ jobs[i].err = "io" /\ jobs[i].done = <<1>>
          /\ jobs[j].skipped /\ jobs[j].done = <<2>>

\* C18: a chunkFunc has added its adjustedChunkSize to the throughput exactly
\* when its StageBlock returned no error and it is past updateCurrentBytes, and
\* 0 otherwise; the throughput of a chunked transfer is the sum of what its
\* chunkFuncs added; and a chunked transfer whose status is Complete has added
\* sourceSize.
C18_ThroughputAccounting ==
    ~(sourceSize = 0 \/ sourceSize <= blockSize) =>
        LET RECURSIVE SumAdded(_)
            SumAdded(S) == IF S = {} THEN 0
                           ELSE LET i == CHOOSE j \in S : TRUE
                                IN  jobs[i].added + SumAdded(S \ {i})
        IN  /\ \A i \in DOMAIN jobs :
                  jobs[i].added =
                     IF /\ jobs[i].err = "nil"
                        /\ jobs[i].pc \in {"okDone", "epilogue", "commit", "committed",
                                           "transferDone", "done"}
                        THEN jobs[i].adjustedChunkSize
                        ELSE 0
            /\ throughput = SumAdded(DOMAIN jobs)
            /\ status = "Complete" => throughput = sourceSize

\* sourceSize 5 in blocks of 2 is Complete and 2 + 2 + 1 bytes were added
C18_Witness ==
    /\ sourceSize = 5 /\ blockSize = 2
    /\ status = "Complete"
    /\ throughput = 5
    /\ jobs[2].added = 1

\* C19: the list command makes at most one Rpc call; when HandleListCommand
\* has run and the status filter was empty or valid, it made exactly one:
\* listJobs for the empty job id, listJobProgressSummary for a job id without
\* status filter, listJobTransfers for a job id with one; and the response
\* went to PrintExistingJobIds, PrintJobProgressSummary or PrintJobTransfers
\* respectively.
C19_OneDispatchByRequest ==
    /\ Len(list.rpc) <= 1
    /\ (/\ list.pc \in {"done", "panic"}
        /\ ~(list.OfStatus # "" /\ TransferStatusStringToCode(list.OfStatus) = MaxUint32))
          => LET cmd == IF list.JobId = EmptyJobId THEN "listJobs"
                        ELSE IF list.OfStatus = "" THEN "listJobProgressSummary"
                        ELSE "listJobTransfers"
                 printer == CASE cmd = "listJobs" -> "PrintExistingJobIds"
                              [] cmd = "listJobProgressSummary" -> "PrintJobProgressSummary"
                              [] cmd = "listJobTransfers" -> "PrintJobTransfers"
             IN  /\ list.rpc = <<cmd>>
                 /\ list.printed # <<>>
                 /\ list.printed[Len(list.printed)][1] = printer

\* the transfers of job 2 with status Failed were listed
C19_Witness ==
    /\ list.pc = "done"
    /\ list.JobId = <<"JobID", 2>>
    /\ list.OfStatus = "Failed"
    /\ list.rpc = <<"listJobTransfers">>
    /\ list.printed = <<<<"PrintJobTransfers", "payload">>>>

\* C20: when CommitBlockList has been invoked, each of the numChunks
\* chunkFuncs took the normal path and its StageBlock returned no error, the
\* finalizing worker found TransferContext.Err() == nil after the last
\* increment, and every slot of the list passed is the id of a block staged
\* without error.
C20_CommitOnlyAfterAllStaged ==
    \A k \in 1..Len(calls.CommitBlockList) :
        /\ \A i \in 0..(numChunks - 1) :
              /\ i \in DOMAIN jobs
              /\ ~jobs[i].skipped
              /\ jobs[i].err = "nil"
              /\ jobs[i].done # <<>>
              /\ calls.CommitBlockList[k][i] # NoBlockId
              /\ jobs[i].staged = <<calls.CommitBlockList[k][i]>>
        /\ \E i \in DOMAIN jobs :
              jobs[i].done = <<numChunks>> /\ jobs[i].epilogueCtxErr = "nil"

\* a commit was made after the cancellation came too late to stop it
C20_Witness ==
    /\ Len(calls.CommitBlockList) = 1
    /\ cancelled
    /\ commitErr = "nil"
    /\ status = "Complete"
    /\ \A i \in DOMAIN jobs : jobs[i].err = "nil"

\* C21: on the chunked path and in putBlob, no step writes the status in or
\* after the step that calls TransferDone: once TransferDone has been called
\* the status and the log of status writes never change again, and no
\* chunkFunc is then still before a status write of its own.
C21_StatusFinalWhenDone ==
    /\ [][(calls.TransferDone > 0 \/ calls'.TransferDone > calls.TransferDone) =>
             (status' = status /\ calls'.statusWrites = calls.statusWrites)]_vars
    /\ [](calls.TransferDone > 0 =>
             /\ prologue \notin {"putBlob", "putBlobStatus", "putBlobDone"}
             /\ \A i \in DOMAIN jobs : jobs[i].pc = "done")

\* two chunks had both written Failed before a third chunkFunc marked the transfer done
C21_Witness ==
    /\ calls.statusWrites = <<"Failed", "Failed">>
    /\ status = "Failed"
    /\ calls.TransferDone = 1
    /\ \E i \in DOMAIN jobs : ~jobs[i].markedFailed /\ jobs[i].done = <<numChunks>>

====
